---- MODULE Spec2Model ----
(***************************************************************************)
(* multislog: a log/slog logger that fans one record stream out to several *)
(* handlers (console, log file, email, test doubles), each with its own    *)
(* level, rewrites the time stamp into one time zone, confines its log     *)
(* file to the directory of the executable and closes handlers and file on *)
(* Close.                                                                  *)
(*                                                                         *)
(* Strings that the code inspects character by character (file names and   *)
(* paths) are sequences of one-character strings.  Errors are the chain of *)
(* values an error wraps, outermost first; nil is the empty chain.         *)
(***************************************************************************)
EXTENDS Integers, Sequences, FiniteSets, TLC

VARIABLES
    fs,      \* the file system: absolute path -> node
    exe,     \* the path os.Executable() reports
    files,   \* every *os.File opened so far, by handle number
    heap,    \* every slog.Handler object allocated so far, by address
    disp,    \* every multihandler allocated so far; disp[1] backs ms.Logger
    ms,      \* the Multislog in use, or NoMs
    emits,   \* number of records emitted through ms so far
    closes,  \* number of calls of ms.Close() so far
    calls,   \* the calls made by the operation that ran last, in order
    ret,     \* what the operation that ran last returned or panicked with
    stderr,  \* number of diagnostics printed to os.Stderr by multislog
    nsess,   \* number of Multislog values constructed so far
    thr      \* the calls of Handle under way, one per goroutine

vars == <<fs, exe, files, heap, disp, ms, emits, closes, calls, ret, stderr, nsess, thr>>

----------------------------------------------------------------------------
(* Bounds                                                                  *)

MaxNameLen == 4      \* longest file name handed to openLogFile
MaxSinks == 2        \* most handlers in a hand-built Multislog
MaxOpts == 2         \* most options handed to New
MaxEmits == 1        \* most records emitted through one Multislog
MaxDerive == 1       \* most WithAttrs/WithGroup derivations per Multislog
MaxSessions == 2     \* most Multislog values constructed in a row
MaxCloses == 2       \* most calls of Close on one Multislog
NumCallers == 2      \* goroutines calling Handle at the same time

----------------------------------------------------------------------------
(* Strings and errors                                                      *)

Sep == "/"
Dot == <<".">>
DotDot == <<".", ".">>

NameChars == {"a", ".", Sep}

RECURSIVE SeqsUpTo(_, _)
SeqsUpTo(S, n) ==
    IF n = 0 THEN {<<>>}
    ELSE LET shorter == SeqsUpTo(S, n - 1)
         IN  shorter \cup {Append(s, c) : s \in {t \in shorter : Len(t) = n - 1}, c \in S}

FileNames == SeqsUpTo(NameChars, MaxNameLen)

NoErr == <<>>

errInvalidOption == "invalid multislog option"
errInvalidLogFileName == "invalid log file name"

\* errors.Is(err, target): target is somewhere in the chain err wraps.
ErrorsIs(err, target) == \E i \in 1..Len(err) : err[i] = target

\* fmt.Errorf("msg: %w", err); a nil operand adds nothing to the chain.
Wrap(msg, err) == <<msg>> \o err

HasPrefix(s, p) == Len(p) <= Len(s) /\ SubSeq(s, 1, Len(p)) = p

Contains(s, c) == \E i \in 1..Len(s) : s[i] = c

----------------------------------------------------------------------------
(* path/filepath                                                           *)

RECURSIVE SplitFrom(_, _, _)
SplitFrom(p, i, cur) ==
    IF i > Len(p) THEN <<cur>>
    ELSE IF p[i] = Sep THEN <<cur>> \o SplitFrom(p, i + 1, <<>>)
    ELSE SplitFrom(p, i + 1, Append(cur, p[i]))

Components(p) == SplitFrom(p, 1, <<>>)

RECURSIVE JoinComps(_)
JoinComps(cs) ==
    IF cs = <<>> THEN <<>>
    ELSE IF Len(cs) = 1 THEN cs[1]
    ELSE cs[1] \o <<Sep>> \o JoinComps(Tail(cs))

RECURSIVE CleanFold(_, _, _, _)
CleanFold(cs, i, acc, rooted) ==
    IF i > Len(cs) THEN acc
    ELSE LET c == cs[i] IN
         IF c = <<>> \/ c = Dot THEN CleanFold(cs, i + 1, acc, rooted)
         ELSE IF c = DotDot
              THEN IF Len(acc) > 0 /\ acc[Len(acc)] # DotDot
                   THEN CleanFold(cs, i + 1, SubSeq(acc, 1, Len(acc) - 1), rooted)
                   ELSE IF rooted THEN CleanFold(cs, i + 1, acc, rooted)
                   ELSE CleanFold(cs, i + 1, Append(acc, DotDot), rooted)
         ELSE CleanFold(cs, i + 1, Append(acc, c), rooted)

\* filepath.Clean: the shortest path naming the same thing, lexically.
Clean(p) ==
    IF p = <<>> THEN Dot
    ELSE LET rooted == p[1] = Sep
             acc == CleanFold(Components(p), 1, <<>>, rooted)
         IN  IF rooted THEN <<Sep>> \o JoinComps(acc)
             ELSE IF acc = <<>> THEN Dot
             ELSE JoinComps(acc)

\* filepath.Join of two non-empty elements.
Join(a, b) == Clean(a \o <<Sep>> \o b)

LastSep(p) ==
    IF Contains(p, Sep) THEN CHOOSE i \in 1..Len(p) : p[i] = Sep /\ \A j \in (i + 1)..Len(p) : p[j] # Sep
    ELSE 0

\* filepath.Dir: everything up to the last separator, cleaned.
Dir(p) == Clean(SubSeq(p, 1, LastSep(p)))

\* filepath.Base of a clean absolute path.
Base(p) == SubSeq(p, LastSep(p) + 1, Len(p))

----------------------------------------------------------------------------
(* The file system                                                         *)

Root == <<Sep>>
BaseDir == <<Sep, "b">>                \* the directory of the executable
ExeFile == <<Sep, "b", Sep, "e">>      \* the executable
ExeLink == <<Sep, "s">>                \* a symlink to the executable
OutDir == <<Sep, "o">>                 \* a directory next to BaseDir
OutFile == <<Sep, "o", Sep, "t">>      \* a file in it
OutNew == <<Sep, "o", Sep, "n">>       \* a name in it that does not exist
SibDir == <<Sep, "b", "b">>            \* a directory whose name extends BaseDir's
SibFile == <<Sep, "b", "b", Sep, "t">>
LogA == <<Sep, "b", Sep, "a">>         \* BaseDir/a

\* One line of a file: the record written and what the handler added to it.
Line(rec, attrs, groups) == [rec |-> rec, attrs |-> attrs, groups |-> groups]
Text(t) == Line([Level |-> 0, inst |-> 0, loc |-> "", Message |-> t], <<>>, <<>>)

\* w: a directory that entries can be created in; mode: a file's permission bits.
DirNode(w) == [kind |-> "dir", target |-> <<>>, data |-> <<>>, w |-> w, mode |-> 0]
FileNode(d, mode) == [kind |-> "file", target |-> <<>>, data |-> d, w |-> FALSE, mode |-> mode]
LinkNode(t) == [kind |-> "link", target |-> t, data |-> <<>>, w |-> FALSE, mode |-> 0]

Exists(fsys, p) == p \in DOMAIN fsys

Put(fsys, p, node) == [q \in (DOMAIN fsys) \cup {p} |-> IF q = p THEN node ELSE fsys[q]]

Remove(fsys, p) == [q \in (DOMAIN fsys) \ {p} |-> fsys[q]]

SymlinkFuel == 3

\* The path of entry name in the resolved directory dir.
Child(dir, name) == IF dir = Root THEN Root \o name ELSE dir \o <<Sep>> \o name

\* Walk the components cs below the resolved directory cur, following
\* symlinks (absolute targets); ok is FALSE when a component is missing, is
\* not a directory, or the links do not end.
RECURSIVE Walk(_, _, _, _)
Walk(fsys, cur, cs, fuel) ==
    IF cs = <<>> THEN [ok |-> TRUE, path |-> cur]
    ELSE LET c == cs[1]
             p == Child(cur, c)
         IN  IF c = <<>> THEN Walk(fsys, cur, Tail(cs), fuel)
             ELSE IF fsys[cur].kind # "dir" \/ ~Exists(fsys, p) THEN [ok |-> FALSE, path |-> p]
             ELSE IF fsys[p].kind = "link"
                  THEN IF fuel = 0 THEN [ok |-> FALSE, path |-> p]
                       ELSE Walk(fsys, Root, Components(fsys[p].target) \o Tail(cs), fuel - 1)
             ELSE Walk(fsys, p, Tail(cs), fuel)

\* filepath.EvalSymlinks of an absolute path.
EvalSymlinks(fsys, p) == Walk(fsys, Root, Components(p), SymlinkFuel)

\* The file the kernel reaches for open(2) with O_CREAT and without
\* O_NOFOLLOW: symlinks are followed in every component, the last included,
\* and a dangling last link names the file to create.
RECURSIVE Lookup(_, _, _)
LookupAt(fsys, fuel, dir, real) ==
    IF ~Exists(fsys, real)
    THEN IF fsys[dir].w THEN [st |-> "create", path |-> real] ELSE [st |-> "EACCES", path |-> real]
    ELSE IF fsys[real].kind = "link"
         THEN IF fuel = 0 THEN [st |-> "ELOOP", path |-> real]
              ELSE Lookup(fsys, fsys[real].target, fuel - 1)
    ELSE IF fsys[real].kind = "dir" THEN [st |-> "EISDIR", path |-> real]
    ELSE [st |-> "found", path |-> real]

LookupIn(fsys, p, fuel, parent, name) ==
    IF ~parent.ok \/ fsys[parent.path].kind # "dir" THEN [st |-> "ENOENT", path |-> p]
    ELSE IF name = <<>> THEN [st |-> "EISDIR", path |-> parent.path]
    ELSE LookupAt(fsys, fuel, parent.path, Child(parent.path, name))

Lookup(fsys, p, fuel) == LookupIn(fsys, p, fuel, EvalSymlinks(fsys, Dir(p)), Base(p))

\* An *os.File: the name it was opened under, the file it reached, its mode.
File(name, real, rdwr, trunc) ==
    [name |-> name, real |-> real, rdwr |-> rdwr, append |-> ~trunc, off |-> 0, closed |-> FALSE]

NoFile == File(<<>>, <<>>, FALSE, FALSE)

OpenAt(fsys, name, rdwr, trunc, perm, l) ==
    IF l.st = "create"
    THEN [err |-> NoErr, file |-> File(name, l.path, rdwr, trunc),
          fs |-> Put(fsys, l.path, FileNode(<<>>, perm))]
    ELSE IF l.st = "found"
    THEN [err |-> NoErr, file |-> File(name, l.path, rdwr, trunc),
          fs |-> IF trunc THEN [fsys EXCEPT ![l.path].data = <<>>] ELSE fsys]
    ELSE [err |-> <<l.st>>, file |-> NoFile, fs |-> fsys]

\* os.OpenFile(name, O_CREATE|O_WRONLY or O_RDWR|O_TRUNC or O_APPEND, perm).
OpenFile(fsys, name, rdwr, trunc, perm) ==
    OpenAt(fsys, name, rdwr, trunc, perm, Lookup(fsys, name, SymlinkFuel))

----------------------------------------------------------------------------
(* openLogFile                                                             *)

permOwnerRead == 384     \* 0o600
permWorldRead == 420     \* 0o644

Failed(fsys, e) == [err |-> e, file |-> NoFile, fs |-> fsys]

\* The end of openLogFile: the result of os.OpenFile, its error wrapped.
openResult(fsys, opened) ==
    IF opened.err # NoErr THEN Failed(fsys, Wrap("couldn't open logfile", opened.err))
    ELSE opened

\* Mutant of openLogPath: the file is truncated whatever clearOnRestart is.
openLogPathTrunc(fsys, baseDir, logPath, allowRead, clearOnRestart) ==
    IF ~Exists(fsys, baseDir) THEN Failed(fsys, Wrap("log directory does not exist", <<"ENOENT">>))
    ELSE IF ~HasPrefix(logPath \o <<Sep>>, baseDir \o <<Sep>>)
         THEN Failed(fsys, Wrap("log file escapes executable directory", NoErr))
    ELSE openResult(fsys, OpenFile(fsys, logPath, allowRead, TRUE,
                                   IF allowRead THEN permWorldRead ELSE permOwnerRead))

\* openLogFile from the os.Stat of baseDir on, with logPath joined.
openLogPath(fsys, baseDir, logPath, allowRead, clearOnRestart) ==
    IF ~Exists(fsys, baseDir) THEN Failed(fsys, Wrap("log directory does not exist", <<"ENOENT">>))
    ELSE IF ~HasPrefix(logPath \o <<Sep>>, baseDir \o <<Sep>>)
         THEN Failed(fsys, Wrap("log file escapes executable directory", NoErr))
    ELSE openResult(fsys, OpenFile(fsys, logPath, allowRead, clearOnRestart,
                                   IF allowRead THEN permWorldRead ELSE permOwnerRead))

\* Mutant of openChecked: a file name with a separator in it is let through.
openCheckedLax(fsys, baseDir, filename, cleanName, allowRead, clearOnRestart) ==
    IF cleanName # filename
    THEN Failed(fsys, <<errInvalidLogFileName>>)
    ELSE openLogPath(fsys, baseDir, Join(baseDir, cleanName), allowRead, clearOnRestart)

\* openLogFile from the check of the file name on, with baseDir and
\* cleanName computed.
openChecked(fsys, baseDir, filename, cleanName, allowRead, clearOnRestart) ==
    IF cleanName # filename \/ Contains(cleanName, Sep)
    THEN Failed(fsys, <<errInvalidLogFileName>>)
    ELSE openLogPath(fsys, baseDir, Join(baseDir, cleanName), allowRead, clearOnRestart)

openResolved(fsys, resolved, filename, allowRead, clearOnRestart) ==
    IF ~resolved.ok THEN Failed(fsys, Wrap("resolve executable symlinks", <<"ENOENT">>))
    ELSE openChecked(fsys, Dir(resolved.path), filename, Clean(filename), allowRead, clearOnRestart)

\* openLogFile(filename, allowRead, clearOnRestart) run on the file system
\* fsys with os.Executable() = exePath: the error, the *os.File and the file
\* system it leaves.
openLogFile(fsys, exePath, filename, allowRead, clearOnRestart) ==
    openResolved(fsys, EvalSymlinks(fsys, exePath), filename, allowRead, clearOnRestart)

----------------------------------------------------------------------------
(* Handlers                                                                *)

\* slog levels: Debug, Info, Warn.
Levels == {-4, 0, 4}

\* A slog.Handler object.  kind "console" is the slog.TextHandler on
\* os.Stderr, "file" the slog.JSONHandler on the log file fd, "email" the
\* emailHandler, "mock" the closingHandler / mockEmailHandler test doubles
\* (fail: Close returns an error; closed: Close has been called).
Handler(kind, level) ==
    [kind |-> kind, Level |-> level, attrs |-> <<>>, groups |-> <<>>, fd |-> 0,
     fail |-> FALSE, closed |-> FALSE, Host |-> "", Port |-> ""]

ConsoleHandler(level) == Handler("console", level)
FileHandler(fd, level) == [Handler("file", level) EXCEPT !.fd = fd]
MockHandler(fail) == [Handler("mock", 0) EXCEPT !.fail = fail]

\* newSMTPClient(host, port, ...) and newEmailHandler(sc, level).
newSMTPClient(host, port) == [Host |-> host, Port |-> port]
newEmailHandler(sc, level) == [Handler("email", level) EXCEPT !.Host = sc.Host, !.Port = sc.Port]

\* h.(interface{ Close() error }): only the test doubles have a Close method.
Closeable(h) == h.kind = "mock"

\* h.Enabled(ctx, level)
sinkEnabled(h, level) == IF h.kind = "mock" THEN TRUE ELSE level >= h.Level

\* A record: slog.Record with Time as (instant, location).
NoRec == [Level |-> 0, inst |-> 0, loc |-> "", Message |-> ""]

\* time.Time.In(loc): the same instant, shown in loc.
TimeIn(r, loc) == [r EXCEPT !.loc = loc]

\* One call the operation made: op on handler h / file fd, with the record
\* handed over and the attributes and groups the handler adds to it.
Event(op, h, fd, rec, attrs, groups, err) ==
    [op |-> op, h |-> h, fd |-> fd, rec |-> rec, attrs |-> attrs, groups |-> groups, err |-> err]

\* file.Write of one line through handle f: at the end with O_APPEND, at the
\* handle's offset otherwise.
WriteLine(fsys, f, line) ==
    LET data == fsys[f.real].data
        padded == data \o [i \in 1..(f.off - Len(data)) |-> Text("")]
    IN  IF f.append THEN [fsys EXCEPT ![f.real].data = Append(data, line)]
        ELSE IF f.off < Len(data) THEN [fsys EXCEPT ![f.real].data[f.off + 1] = line]
        ELSE [fsys EXCEPT ![f.real].data = Append(padded, line)]

\* The address smtpClient.Send dials, as (host, port) of "host:port", and
\* the host it authenticates against.
SendAddr(h) == <<h.Host, h.Port>>
SendAuthHost(h) == h.Host

\* smtpClient.Send reaches the server when the network is up.
Send(h, net) == IF net THEN NoErr ELSE <<"SMTP Client couldn't send mail", "dial">>

\* h.Handle(ctx, r) for handler object h: the error, and the file system and
\* handles it leaves.
sinkHandle(h, r, fsys, fls, net) ==
    LET same(e) == [err |-> e, fs |-> fsys, files |-> fls]
    IN  CASE h.kind = "file" ->
               IF fls[h.fd].closed \/ ~Exists(fsys, fls[h.fd].real)
               THEN same(<<"write", "file already closed">>)
               ELSE [err |-> NoErr,
                     fs |-> WriteLine(fsys, fls[h.fd], Line(r, h.attrs, h.groups)),
                     files |-> [fls EXCEPT ![h.fd].off = @ + 1]]
          [] h.kind = "email" ->
               IF r.Level < h.Level THEN same(NoErr)
               ELSE IF Send(h, net) # NoErr THEN same(Wrap("logger couldn't send emailr", Send(h, net)))
               ELSE same(NoErr)
          [] OTHER -> same(NoErr)

----------------------------------------------------------------------------
(* multihandler                                                            *)

\* multihandler.Enabled: the first handler that accepts the level decides.
RECURSIVE EnabledFrom(_, _, _, _)
EnabledFrom(hp, hs, i, level) ==
    IF i > Len(hs) THEN FALSE
    ELSE IF sinkEnabled(hp[hs[i]], level) THEN TRUE
    ELSE EnabledFrom(hp, hs, i + 1, level)

\* Mutant of mhEnabled: the first handler alone decides.
mhEnabledFirst(hp, mh, level) ==
    mh.handlers # <<>> /\ sinkEnabled(hp[mh.handlers[1]], level)

mhEnabled(hp, mh, level) == EnabledFrom(hp, mh.handlers, 1, level)

\* The loop of multihandler.Handle from handler i on, with record r.
\* _ = h.Handle(ctx, r) returned res: the state after it, the error dropped.
Handled(st, a, h, r, res) ==
    [st EXCEPT !.fs = res.fs, !.files = res.files,
               !.calls = Append(@, Event("Handle", a, h.fd, r, h.attrs, h.groups, res.err))]

\* Mutant of HandleFrom: every handler is handed the record, enabled or not.
RECURSIVE HandleUnfiltered(_, _, _, _, _)
HandleUnfiltered(st, hs, i, r, net) ==
    IF i > Len(hs) THEN st
    ELSE HandleUnfiltered(Handled(st, hs[i], st.heap[hs[i]], r,
                                  sinkHandle(st.heap[hs[i]], r, st.fs, st.files, net)),
                          hs, i + 1, r, net)

\* Mutant of HandleFrom: the loop ends at the first handler whose Handle
\* returns an error, and that error is what Handle returns.
RECURSIVE HandleFromAbort(_, _, _, _, _)
HandleFromAbort(st, hs, i, r, net) ==
    IF i > Len(hs) THEN st
    ELSE IF sinkEnabled(st.heap[hs[i]], r.Level)
         THEN IF sinkHandle(st.heap[hs[i]], r, st.fs, st.files, net).err # NoErr
              THEN [Handled(st, hs[i], st.heap[hs[i]], r,
                            sinkHandle(st.heap[hs[i]], r, st.fs, st.files, net))
                       EXCEPT !.err = sinkHandle(st.heap[hs[i]], r, st.fs, st.files, net).err]
              ELSE HandleFromAbort(Handled(st, hs[i], st.heap[hs[i]], r,
                                           sinkHandle(st.heap[hs[i]], r, st.fs, st.files, net)),
                                   hs, i + 1, r, net)
    ELSE HandleFromAbort(st, hs, i + 1, r, net)

RECURSIVE HandleFrom(_, _, _, _, _)
HandleFrom(st, hs, i, r, net) ==
    IF i > Len(hs) THEN st
    ELSE IF sinkEnabled(st.heap[hs[i]], r.Level)
         THEN HandleFrom(Handled(st, hs[i], st.heap[hs[i]], r,
                                 sinkHandle(st.heap[hs[i]], r, st.fs, st.files, net)),
                         hs, i + 1, r, net)
    ELSE HandleFrom(st, hs, i + 1, r, net)

\* Mutant of mhHandle: the record goes to the handlers as it came.
mhHandleRaw(st, mh, r, net) ==
    HandleFrom([st EXCEPT !.calls = <<>>], mh.handlers, 1, r, net)

\* multihandler.Handle(ctx, r): the state it leaves; it returns nil.
mhHandle(st, mh, r, net) ==
    IF mh.tz # ""
    THEN HandleFrom([st EXCEPT !.calls = <<Event("In", 0, 0, TimeIn(r, mh.tz), <<>>, <<>>, NoErr)>>],
                    mh.handlers, 1, TimeIn(r, mh.tz), net)
    ELSE HandleFrom([st EXCEPT !.calls = <<>>], mh.handlers, 1, r, net)

\* h.WithAttrs(attrs) / h.WithGroup(name) for handler object h: TRUE when the
\* handler returns itself (emailHandler and the test doubles always, the
\* slog handlers for nothing to add).
DerivesSelf(h, attrs, name) ==
    h.kind \in {"email", "mock"} \/ (attrs = <<>> /\ name = "")

DeriveSink(h, attrs, name) ==
    [h EXCEPT !.attrs = @ \o attrs, !.groups = IF name = "" THEN @ ELSE Append(@, name)]

\* The loop of WithAttrs / WithGroup: hs[i] = mh.handlers[i].WithAttrs(attrs).
RECURSIVE DeriveFrom(_, _, _, _, _, _)
DeriveFrom(hp, hs, old, i, attrs, name) ==
    IF i > Len(old) THEN [heap |-> hp, hs |-> hs]
    ELSE IF DerivesSelf(hp[old[i]], attrs, name)
         THEN DeriveFrom(hp, Append(hs, old[i]), old, i + 1, attrs, name)
    ELSE DeriveFrom(Append(hp, DeriveSink(hp[old[i]], attrs, name)), Append(hs, Len(hp) + 1),
                    old, i + 1, attrs, name)

\* Mutant of mhWithAttrs: the attributes are added to the handlers of mh
\* themselves, which the multihandler returned shares.
mhWithAttrsInPlace(hp, mh, attrs) ==
    [heap |-> [a \in DOMAIN hp |->
                 IF (\E i \in DOMAIN mh.handlers : mh.handlers[i] = a) /\ ~DerivesSelf(hp[a], attrs, "")
                 THEN DeriveSink(hp[a], attrs, "") ELSE hp[a]],
     mh |-> mh]

\* multihandler.WithAttrs(attrs): the heap it leaves and the multihandler it returns.
mhWithAttrs(hp, mh, attrs) ==
    LET r == DeriveFrom(hp, <<>>, mh.handlers, 1, attrs, "")
    IN  [heap |-> r.heap, mh |-> [handlers |-> r.hs, tz |-> mh.tz]]

\* multihandler.WithGroup(name)
mhWithGroup(hp, mh, name) ==
    LET r == DeriveFrom(hp, <<>>, mh.handlers, 1, <<>>, name)
    IN  [heap |-> r.heap, mh |-> [handlers |-> r.hs, tz |-> mh.tz]]

\* A call of multihandler.Handle(ctx, r) by one goroutine: arg is the
\* caller's record, r the parameter (the call's own copy of it), i the loop
\* index, got the calls of h.Handle it has made, err what it returned.
NoCall == [pc |-> "idle", arg |-> NoRec, r |-> NoRec, i |-> 0, got |-> <<>>, err |-> NoErr]

\* if mh.tz != nil { r.Time = r.Time.In(mh.tz) }: the multihandler and the
\* call after it.
callTz(mh, l) ==
    [mh |-> mh,
     l |-> [l EXCEPT !.r = IF mh.tz # "" THEN TimeIn(@, mh.tz) ELSE @, !.pc = "loop", !.i = 1]]

\* Mutant of callLoop: the loop takes each handler off mh.handlers as it
\* goes.
callLoopConsume(mh, hp, l, res) ==
    IF mh.handlers = <<>> THEN [mh |-> mh, l |-> [l EXCEPT !.pc = "done", !.err = NoErr]]
    ELSE IF sinkEnabled(hp[mh.handlers[1]], l.r.Level)
         THEN [mh |-> [mh EXCEPT !.handlers = Tail(@)],
               l |-> [l EXCEPT !.got = Append(@, Event("Handle", mh.handlers[1], hp[mh.handlers[1]].fd,
                                                       l.r, hp[mh.handlers[1]].attrs,
                                                       hp[mh.handlers[1]].groups, res.err))]]
    ELSE [mh |-> [mh EXCEPT !.handlers = Tail(@)], l |-> l]

\* One turn of the loop of Handle, res being what h.Handle(ctx, r) gives for
\* the handler at l.i; past the last handler, return nil.
callLoop(mh, hp, l, res) ==
    IF l.i > Len(mh.handlers) THEN [mh |-> mh, l |-> [l EXCEPT !.pc = "done", !.err = NoErr]]
    ELSE IF sinkEnabled(hp[mh.handlers[l.i]], l.r.Level)
         THEN [mh |-> mh,
               l |-> [l EXCEPT !.i = @ + 1,
                               !.got = Append(@, Event("Handle", mh.handlers[l.i], hp[mh.handlers[l.i]].fd,
                                                       l.r, hp[mh.handlers[l.i]].attrs,
                                                       hp[mh.handlers[l.i]].groups, res.err))]]
    ELSE [mh |-> mh, l |-> [l EXCEPT !.i = @ + 1]]

----------------------------------------------------------------------------
(* Multislog                                                               *)

\* The Multislog struct; made is FALSE while no Multislog exists.
NoMs == [made |-> FALSE, Logger |-> 0, logFile |-> 0, timezone |-> "", handlers |-> <<>>]

\* One c.Close() on handler object a, which returned err.
Closed(st, a, err) ==
    [st EXCEPT !.heap[a].closed = TRUE,
               !.calls = Append(@, Event("Close", a, 0, NoRec, <<>>, <<>>, err)),
               !.stderr = IF err # NoErr THEN @ + 1 ELSE @]

\* c.Close() of the test doubles.
sinkClose(h) == IF h.fail THEN <<"smtp failure">> ELSE NoErr

\* Mutant of CloseFrom: the loop ends at the first handler that fails to close.
RECURSIVE CloseFromAbort(_, _, _)
CloseFromAbort(st, hs, i) ==
    IF i > Len(hs) THEN st
    ELSE IF Closeable(st.heap[hs[i]])
         THEN IF sinkClose(st.heap[hs[i]]) # NoErr
              THEN Closed(st, hs[i], sinkClose(st.heap[hs[i]]))
              ELSE CloseFromAbort(Closed(st, hs[i], NoErr), hs, i + 1)
    ELSE CloseFromAbort(st, hs, i + 1)

\* The loop of Multislog.Close over ms.handlers from handler i on.
RECURSIVE CloseFrom(_, _, _)
CloseFrom(st, hs, i) ==
    IF i > Len(hs) THEN st
    ELSE IF Closeable(st.heap[hs[i]])
         THEN CloseFrom(Closed(st, hs[i], sinkClose(st.heap[hs[i]])), hs, i + 1)
    ELSE CloseFrom(st, hs, i + 1)

\* The end of Multislog.Close: the log file, when ms.logFile is not nil.
CloseLogFile(st) ==
    LET fd == st.ms.logFile
        err == IF st.files[fd].closed THEN <<"close", "file already closed">> ELSE NoErr
    IN  IF fd # 0
        THEN [st EXCEPT !.files[fd].closed = TRUE,
                        !.calls = Append(@, Event("file.Close", 0, fd, NoRec, <<>>, <<>>, err)),
                        !.stderr = IF err # NoErr THEN @ + 1 ELSE @,
                        !.ms.logFile = 0]
        ELSE st

\* Mutant of msClose: the log file is closed before the handlers.
msCloseFileFirst(st) == CloseFrom(CloseLogFile([st EXCEPT !.calls = <<>>]), st.ms.handlers, 1)

\* Multislog.Close()
msClose(st) == CloseLogFile(CloseFrom([st EXCEPT !.calls = <<>>], st.ms.handlers, 1))

\* time.LoadLocation(name)
Zones == {"UTC", "Asia/Hong_Kong"}
LoadLocation(name) ==
    IF name \in Zones THEN [err |-> NoErr, tz |-> name]
    ELSE [err |-> <<"unknown time zone">>, tz |-> ""]

Option(opt) ==
    [opt |-> opt, level |-> 0, timezone |-> "", filename |-> <<>>, allowRead |-> FALSE,
     clearOnRestart |-> FALSE, host |-> "", port |-> ""]

\* EnableTimezone(timezone)(ms)
EnableTimezone(st, o) ==
    LET l == LoadLocation(o.timezone)
    IN  IF l.err # NoErr THEN [st EXCEPT !.err = Wrap("failed to fallback to UTC time zone", l.err)]
        ELSE [st EXCEPT !.ms.timezone = l.tz]

\* EnableConsole(level)(ms)
EnableConsole(st, o) ==
    [st EXCEPT !.heap = Append(@, ConsoleHandler(o.level)),
               !.ms.handlers = Append(@, Len(st.heap) + 1)]

\* EnableLogFile(level, filename, allowRead, clearOnRestart)(ms)
FileEnabled(st, o, r) ==
    IF r.err # NoErr THEN [st EXCEPT !.err = r.err]
    ELSE [st EXCEPT !.fs = r.fs,
                    !.files = Append(@, r.file),
                    !.ms.logFile = Len(st.files) + 1,
                    !.heap = Append(@, FileHandler(Len(st.files) + 1, o.level)),
                    !.ms.handlers = Append(@, Len(st.heap) + 1)]

EnableLogFile(st, o) ==
    FileEnabled(st, o, openLogFile(st.fs, st.exe, o.filename, o.allowRead, o.clearOnRestart))

\* EnableEmail(level, host, port, ...)(ms)
EnableEmail(st, o) ==
    LET sc == newSMTPClient(o.port, o.host)
    IN  [st EXCEPT !.heap = Append(@, newEmailHandler(sc, o.level)),
                   !.ms.handlers = Append(@, Len(st.heap) + 1)]

ApplyOption(st, o) ==
    CASE o.opt = "EnableTimezone" -> EnableTimezone(st, o)
      [] o.opt = "EnableConsole" -> EnableConsole(st, o)
      [] o.opt = "EnableLogFile" -> EnableLogFile(st, o)
      [] o.opt = "EnableEmail" -> EnableEmail(st, o)

\* The loop of New over opts from option i on; it stops at the first error.
RECURSIVE ApplyFrom(_, _, _)

\* Mutant of Applied: the options after a failed one are applied as well.
AppliedThrough(next, opts, i) == ApplyFrom(next, opts, i + 1)

Applied(next, opts, i) ==
    IF next.err # NoErr THEN next ELSE ApplyFrom(next, opts, i + 1)

ApplyFrom(st, opts, i) ==
    IF i > Len(opts) THEN st
    ELSE Applied(ApplyOption(st, opts[i]), opts, i)

\* ms := &Multislog{}; ms.timezone = time.UTC
Fresh == [made |-> TRUE, Logger |-> 0, logFile |-> 0, timezone |-> "UTC", handlers |-> <<>>]

\* The end of New, the options applied: the panic, or the multihandler and
\* the Logger on it.
Built(done) ==
    IF done.err # NoErr
    THEN [done EXCEPT !.err = <<errInvalidOption>> \o done.err, !.ms = NoMs, !.heap = <<>>]
    ELSE [done EXCEPT !.disp = <<[handlers |-> done.ms.handlers, tz |-> done.ms.timezone]>>,
                      !.ms.Logger = 1]

\* New(opts...): the state it leaves; err is the value it panics with.
New(st, opts) == Built(ApplyFrom([st EXCEPT !.ms = Fresh, !.err = NoErr], opts, 1))

----------------------------------------------------------------------------
(* State                                                                   *)

Idle == [op |-> "none", err |-> NoErr, panicked |-> FALSE, fd |-> 0, name |-> <<>>,
         d |-> 0, level |-> 0, yes |-> FALSE, rec |-> NoRec, opts |-> <<>>,
         attrs |-> <<>>, group |-> ""]

BaseFs ==
    [p \in {Root, BaseDir, ExeFile, ExeLink, OutDir, OutFile, SibDir, SibFile} |->
        CASE p = ExeFile -> FileNode(<<>>, 493)
          [] p = ExeLink -> LinkNode(ExeFile)
          [] p = OutFile -> FileNode(<<Text("secret")>>, permOwnerRead)
          [] p = SibFile -> FileNode(<<Text("secret")>>, permOwnerRead)
          [] OTHER -> DirNode(TRUE)]

\* What BaseDir/a can be before the program starts.
Entries ==
    {FileNode(<<>>, permOwnerRead), FileNode(<<Text("old")>>, permOwnerRead), DirNode(TRUE),
     LinkNode(OutFile), LinkNode(OutNew), LinkNode(SibFile), LinkNode(LogA)}

FsStates ==
    {[BaseFs EXCEPT ![BaseDir].w = w] : w \in BOOLEAN}
    \cup {Put(BaseFs, LogA, e) : e \in Entries}

InitRest ==
    /\ files = <<>>
    /\ heap = <<>>
    /\ disp = <<>>
    /\ ms = NoMs
    /\ emits = 0
    /\ closes = 0
    /\ calls = <<>>
    /\ ret = Idle
    /\ stderr = 0
    /\ nsess = 0
    /\ thr = [t \in 1..NumCallers |-> NoCall]

InitOpen ==
    /\ fs \in FsStates
    /\ exe \in {ExeFile, ExeLink}
    /\ InitRest

\* The program state as the operators above thread it.
Now == [fs |-> fs, exe |-> exe, files |-> files, heap |-> heap, disp |-> disp, ms |-> ms,
        calls |-> calls, stderr |-> stderr, err |-> NoErr]

Became(st) ==
    /\ fs' = st.fs
    /\ files' = st.files
    /\ heap' = st.heap
    /\ disp' = st.disp
    /\ ms' = st.ms
    /\ calls' = st.calls
    /\ stderr' = st.stderr
    /\ exe' = exe

----------------------------------------------------------------------------
(* A Multislog built by hand, as the tests of Close build it, and the calls *)
(* on it and on its multihandlers                                          *)

Recs == [Level : Levels, inst : {1}, loc : {"Local"}, Message : {"m"}]

\* The handlers a hand-built Multislog can hold.
SinkConfigs ==
    {ConsoleHandler(0), newEmailHandler(newSMTPClient("smtp", "465"), 4),
     MockHandler(FALSE), MockHandler(TRUE)}

\* ms := &Multislog{handlers: hs, logFile: f, timezone: tz} with the
\* multihandler {handlers: hs, tz: tz}; f is openLogFile("a", false, true).
LiteralWith(hs, tz, withFile, r, idx) ==
    /\ withFile => r.err = NoErr
    /\ fs' = IF withFile THEN r.fs ELSE fs
    /\ files' = IF withFile THEN <<r.file>> ELSE <<>>
    /\ heap' = hs
    /\ disp' = <<[handlers |-> idx, tz |-> tz]>>
    /\ ms' = [made |-> TRUE, Logger |-> 1, logFile |-> IF withFile THEN 1 ELSE 0,
              timezone |-> tz, handlers |-> idx]

Literal(hs, tz, withFile) ==
    /\ ~ms.made
    /\ nsess < MaxSessions
    /\ LiteralWith(hs, tz, withFile, openLogFile(fs, exe, <<"a">>, FALSE, TRUE),
                   [i \in 1..Len(hs) |-> i])
    /\ nsess' = nsess + 1
    /\ ret' = [Idle EXCEPT !.op = "Literal"]
    /\ UNCHANGED <<thr, exe, emits, closes, calls, stderr>>

NewDone(opts, st) ==
    /\ Became(st)
    /\ ret' = [Idle EXCEPT !.op = "New", !.err = st.err, !.panicked = st.err # NoErr,
                           !.opts = opts]

\* New(opts...)
NewCall(opts) ==
    /\ ~ms.made
    /\ nsess < MaxSessions
    /\ NewDone(opts, New(Now, opts))
    /\ nsess' = nsess + 1
    /\ UNCHANGED <<thr, emits, closes>>

\* Handle returned, leaving state st: st.err is the error it returned.
HandleDone(d, r, st) ==
    /\ Became(st)
    /\ ret' = [Idle EXCEPT !.op = "Handle", !.d = d, !.rec = r, !.level = r.Level,
                           !.err = st.err]

\* disp[d].Handle(ctx, r), with the network up or down.
HandleCall(d, r, net) ==
    /\ ms.made
    /\ d \in 1..Len(disp)
    /\ emits < MaxEmits
    /\ HandleDone(d, r, mhHandle(Now, disp[d], r, net))
    /\ emits' = emits + 1
    /\ UNCHANGED <<thr, closes, nsess>>

LogDone(mh, r, net, enabled) ==
    /\ IF enabled THEN Became(mhHandle(Now, mh, r, net)) ELSE Became([Now EXCEPT !.calls = <<>>])
    /\ ret' = [Idle EXCEPT !.op = "Log", !.d = ms.Logger, !.rec = r, !.level = r.Level,
                           !.yes = enabled]

\* ms.Logger.Log(ctx, r.Level, r.Message): slog asks Enabled, then calls Handle.
LogCall(r, net) ==
    /\ ms.made
    /\ emits < MaxEmits
    /\ LogDone(disp[ms.Logger], r, net, mhEnabled(heap, disp[ms.Logger], r.Level))
    /\ emits' = emits + 1
    /\ UNCHANGED <<thr, closes, nsess>>

\* disp[d].Enabled(ctx, level)
EnabledCall(d, level) ==
    /\ ms.made
    /\ d \in 1..Len(disp)
    /\ ret' = [Idle EXCEPT !.op = "Enabled", !.d = d, !.level = level,
                           !.yes = mhEnabled(heap, disp[d], level)]
    /\ calls' = <<>>
    /\ UNCHANGED <<thr, fs, exe, files, heap, disp, ms, emits, closes, stderr, nsess>>

\* disp[d].WithAttrs(attrs)
WithAttrsCall(d, attrs) ==
    /\ ms.made
    /\ d \in 1..Len(disp)
    /\ Len(disp) <= MaxDerive
    /\ LET r == mhWithAttrs(heap, disp[d], attrs)
       IN  /\ heap' = r.heap
           /\ disp' = Append(disp, r.mh)
    /\ ret' = [Idle EXCEPT !.op = "WithAttrs", !.d = d, !.attrs = attrs]
    /\ calls' = <<>>
    /\ UNCHANGED <<thr, fs, exe, files, ms, emits, closes, stderr, nsess>>

\* disp[d].WithGroup(name)
WithGroupCall(d, name) ==
    /\ ms.made
    /\ d \in 1..Len(disp)
    /\ Len(disp) <= MaxDerive
    /\ LET r == mhWithGroup(heap, disp[d], name)
       IN  /\ heap' = r.heap
           /\ disp' = Append(disp, r.mh)
    /\ ret' = [Idle EXCEPT !.op = "WithGroup", !.d = d, !.group = name]
    /\ calls' = <<>>
    /\ UNCHANGED <<thr, fs, exe, files, ms, emits, closes, stderr, nsess>>

\* ms.Close()
CloseCall ==
    /\ ms.made
    /\ closes < MaxCloses
    /\ Became(msClose(Now))
    /\ ret' = [Idle EXCEPT !.op = "Close"]
    /\ closes' = closes + 1
    /\ UNCHANGED <<thr, emits, nsess>>

\* The Multislog goes out of scope after its deferred Close; files it left
\* open stay open.
Discard ==
    /\ ms.made
    /\ closes > 0
    /\ ms' = NoMs
    /\ heap' = <<>>
    /\ disp' = <<>>
    /\ files' = SelectSeq(files, LAMBDA f : ~f.closed)
    /\ emits' = 0
    /\ closes' = 0
    /\ calls' = <<>>
    /\ ret' = Idle
    /\ UNCHANGED <<thr, fs, exe, stderr, nsess>>

TimeZones == {"", "Asia/Hong_Kong"}
Attrs == {<<>>, <<"k">>}
Groups == {"g"}

Init ==
    /\ fs = BaseFs
    /\ exe = ExeFile
    /\ InitRest

\* A hand-built multihandler, with or without a time zone, and the calls on
\* it and on the multihandlers derived from it.
Next ==
    \/ \E tz \in TimeZones, hs \in SeqsUpTo(SinkConfigs, MaxSinks) : Literal(hs, tz, FALSE)
    \/ \E d \in 1..(MaxDerive + 1), r \in Recs, net \in BOOLEAN : HandleCall(d, r, net)
    \/ \E d \in 1..(MaxDerive + 1), level \in Levels : EnabledCall(d, level)
    \/ \E d \in 1..(MaxDerive + 1), attrs \in Attrs : WithAttrsCall(d, attrs)
    \/ \E d \in 1..(MaxDerive + 1), name \in Groups : WithGroupCall(d, name)

Spec == Init /\ [][Next]_vars

\* A hand-built Multislog, with or without a log file, and Close on it.
NextClose ==
    \/ \E withFile \in BOOLEAN, tz \in TimeZones, hs \in SeqsUpTo(SinkConfigs, MaxSinks) :
         Literal(hs, tz, withFile)
    \/ CloseCall

SpecClose == Init /\ [][NextClose]_vars

----------------------------------------------------------------------------
(* Goroutines calling Handle on one multihandler at the same time          *)

ConcSinks == {ConsoleHandler(0), newEmailHandler(newSMTPClient("smtp", "465"), 4)}

\* Goroutine t calls disp[1].Handle(ctx, r): r is passed by value.
ConcCall(t, r) ==
    /\ ms.made
    /\ thr[t].pc = "idle"
    /\ thr' = [thr EXCEPT ![t] = [NoCall EXCEPT !.pc = "tz", !.arg = r, !.r = r]]
    /\ UNCHANGED <<fs, exe, files, heap, disp, ms, emits, closes, calls, ret, stderr, nsess>>

ConcStepped(t, res) ==
    /\ disp' = [disp EXCEPT ![1] = res.mh]
    /\ thr' = [thr EXCEPT ![t] = res.l]

\* Goroutine t runs the time zone rewrite of its call.
ConcTz(t) ==
    /\ thr[t].pc = "tz"
    /\ ConcStepped(t, callTz(disp[1], thr[t]))
    /\ UNCHANGED <<fs, exe, files, heap, ms, emits, closes, calls, ret, stderr, nsess>>

\* The handler the loop of l is at, or the first one past the end.
ConcAt(mh, l) == IF l.i \in DOMAIN mh.handlers THEN mh.handlers[l.i] ELSE 1

ConcHandled(t, res) ==
    /\ ConcStepped(t, callLoop(disp[1], heap, thr[t], res))
    /\ fs' = IF thr'[t].got # thr[t].got THEN res.fs ELSE fs
    /\ files' = IF thr'[t].got # thr[t].got THEN res.files ELSE files

\* Goroutine t runs one turn of the loop of its call, with the network up.
ConcLoop(t) ==
    /\ thr[t].pc = "loop"
    /\ heap # <<>>
    /\ ConcHandled(t, sinkHandle(heap[ConcAt(disp[1], thr[t])], thr[t].r, fs, files, TRUE))
    /\ UNCHANGED <<exe, heap, ms, emits, closes, calls, ret, stderr, nsess>>

\* Goroutine t runs the loop of its call on a multihandler without handlers.
ConcNone(t) ==
    /\ thr[t].pc = "loop"
    /\ heap = <<>>
    /\ ConcStepped(t, callLoop(disp[1], heap, thr[t], [err |-> NoErr]))
    /\ UNCHANGED <<fs, exe, files, heap, ms, emits, closes, calls, ret, stderr, nsess>>

ConcRecs(t) == [Level : {0, 4}, inst : {t}, loc : {"Local"}, Message : {"m"}]

NextConc ==
    \/ \E tz \in TimeZones, hs \in SeqsUpTo(ConcSinks, MaxSinks) : Literal(hs, tz, FALSE)
    \/ \E t \in 1..NumCallers : \E r \in ConcRecs(t) : ConcCall(t, r)
    \/ \E t \in 1..NumCallers : ConcTz(t)
    \/ \E t \in 1..NumCallers : ConcLoop(t)
    \/ \E t \in 1..NumCallers : ConcNone(t)

SpecConc == Init /\ [][NextConc]_vars

----------------------------------------------------------------------------
(* Properties of the multihandler and of Close                             *)

\* The handler reports itself enabled for the level: its threshold is at
\* most the level (the test doubles accept every level).
Accepts(h, level) == h.kind = "mock" \/ h.Level <= level

\* The positions in calls where op was called on handler object a.
CallsOn(op, a) == {k \in DOMAIN calls : calls[k].op = op /\ calls[k].h = a}

Sinks(d) == disp[d].handlers

\* C1: multihandler.Handle invokes Handle exactly once on each sink whose
\* threshold admits the record's level, and on no other sink.
C1_HandleExactlyEnabled ==
    ret.op = "Handle" =>
        /\ \A i \in DOMAIN Sinks(ret.d) :
             Cardinality(CallsOn("Handle", Sinks(ret.d)[i])) =
                 IF Accepts(heap[Sinks(ret.d)[i]], ret.rec.Level) THEN 1 ELSE 0
        /\ \A k \in DOMAIN calls :
             calls[k].op = "Handle" => \E i \in DOMAIN Sinks(ret.d) : Sinks(ret.d)[i] = calls[k].h

\* A record reached one sink of a multihandler and not another one.
C1_Witness ==
    /\ ret.op = "Handle"
    /\ \E i, j \in DOMAIN Sinks(ret.d) :
         /\ CallsOn("Handle", Sinks(ret.d)[i]) # {}
         /\ CallsOn("Handle", Sinks(ret.d)[j]) = {}
         /\ heap[Sinks(ret.d)[j]].Level > ret.rec.Level

\* The positions in calls of the Handle calls that returned an error.
FailedHandles == {k \in DOMAIN calls : calls[k].op = "Handle" /\ calls[k].err # NoErr}

\* C11: when the Handle of a sink returns an error, multihandler.Handle
\* still calls Handle on every other sink that accepts the record's level,
\* those before it and those after it, and returns nil.
C11_SinkErrorIsolated ==
    (ret.op = "Handle" /\ FailedHandles # {}) =>
        /\ ret.err = NoErr
        /\ ~ret.panicked
        /\ \A i \in DOMAIN Sinks(ret.d) :
             Accepts(heap[Sinks(ret.d)[i]], ret.rec.Level) =>
                 CallsOn("Handle", Sinks(ret.d)[i]) # {}

\* The Handle of the first sink returned an error and the sink after it
\* was handed the record.
C11_Witness ==
    /\ ret.op = "Handle"
    /\ \E k \in FailedHandles, l \in DOMAIN calls :
         /\ k < l
         /\ calls[l].op = "Handle"
         /\ calls[l].err = NoErr
         /\ calls[l].h # calls[k].h

\* The Handle of the last sink returned an error after another sink was
\* handed the record.
C11_WitnessLast ==
    /\ ret.op = "Handle"
    /\ \E k \in FailedHandles, l \in DOMAIN calls :
         /\ l < k
         /\ calls[l].op = "Handle"
         /\ calls[l].err = NoErr

\* C12: every error a sink's Handle returns for a record is reported once
\* on the diagnostic stream before it is dropped: Handle leaves as many
\* diagnostics as sinks failed.
C12_SinkErrorReported ==
    ret.op = "Handle" => stderr = Cardinality(FailedHandles)

\* The calls of h.Handle that disp[1].Handle(ctx, r) makes when it runs alone.
Alone(r) == SelectSeq(mhHandle(Now, disp[1], r, TRUE).calls, LAMBDA e : e.op = "Handle")

\* A step of a call of Handle writes neither the multihandlers nor the
\* handlers nor the Multislog, and nothing of another call; it leaves the
\* caller's record as it was passed.
C14_CallStep ==
    \A t \in 1..NumCallers :
        thr'[t] # thr[t] =>
            /\ disp' = disp
            /\ heap' = heap
            /\ ms' = ms
            /\ \A u \in 1..NumCallers : u # t => thr'[u] = thr[u]
            /\ thr[t].pc # "idle" => thr'[t].arg = thr[t].arg

\* C14: calls of Handle on one multihandler that overlap in time write
\* neither its handler list nor its time zone, rewrite the time stamp of
\* their own copy of the record only, and each hands its record to the sinks
\* and with the time stamp it would have running alone, then returns nil.
C14_ConcurrentHandle ==
    /\ [][C14_CallStep]_vars
    /\ [](\A t \in 1..NumCallers :
            /\ thr[t].pc = "done" => thr[t].got = Alone(thr[t].arg) /\ thr[t].err = NoErr
            /\ thr[t].pc = "loop" =>
                 thr[t].r = IF disp[1].tz # "" THEN TimeIn(thr[t].arg, disp[1].tz) ELSE thr[t].arg)

\* Under a time zone, one call has returned after handing its record to two
\* sinks while another call, of another record, is in the middle of its loop.
C14_Witness ==
    /\ ms.made
    /\ disp[1].tz # ""
    /\ \E t, u \in 1..NumCallers :
         /\ thr[t].pc = "done"
         /\ Len(thr[t].got) = 2
         /\ thr[u].pc = "loop"
         /\ thr[u].i = 2
         /\ Len(thr[u].got) = 1
         /\ thr[u].arg.Level # thr[t].arg.Level

\* C2: a second Close performs no operation: it calls Close on no sink and
\* on no file.
C2_SecondCloseNoOp == (ret.op = "Close" /\ closes = 2) => calls = <<>>

\* C4: Close calls Close on every sink that has one, whichever of them
\* fail, closes the log file it owns, and returns.
C4_CloseReachesAll ==
    ret.op = "Close" =>
        /\ \A i \in DOMAIN ms.handlers :
             Closeable(heap[ms.handlers[i]]) =>
                 /\ CallsOn("Close", ms.handlers[i]) # {}
                 /\ heap[ms.handlers[i]].closed
        /\ \A fd \in DOMAIN files : files[fd].closed
        /\ closes = 1 /\ files # <<>> => \E k \in DOMAIN calls : calls[k].op = "file.Close"
        /\ ~ret.panicked

\* The first of two closeable sinks failed to close, and there is a log file.
C4_Witness ==
    /\ ret.op = "Close"
    /\ closes = 1
    /\ Len(ms.handlers) = 2
    /\ files # <<>>
    /\ calls[1].op = "Close" /\ calls[1].err # NoErr
    /\ Closeable(heap[ms.handlers[2]])

\* The position of handler object a in ms.handlers.
Registered(a) == CHOOSE i \in DOMAIN ms.handlers : ms.handlers[i] = a

\* C5: Close closes the sinks in the order of registration and the log file
\* after the last of them.
C5_CloseOrder ==
    ret.op = "Close" =>
        /\ \A k, l \in DOMAIN calls :
             (k < l /\ calls[k].op = "Close" /\ calls[l].op = "Close") =>
                 Registered(calls[k].h) < Registered(calls[l].h)
        /\ \A k \in DOMAIN calls : calls[k].op = "file.Close" => k = Len(calls)

\* Two sinks and the log file were closed.
C5_Witness ==
    /\ ret.op = "Close"
    /\ Len(calls) = 3
    /\ calls[1].op = "Close" /\ calls[2].op = "Close" /\ calls[3].op = "file.Close"

\* C6: with a time zone configured, Handle rewrites the time stamp once,
\* before the first sink, and every sink is handed the record with that
\* time stamp: the zone configured, the instant emitted.
C6_TimestampOnce ==
    (ret.op = "Handle" /\ disp[ret.d].tz # "") =>
        /\ calls # <<>> /\ calls[1].op = "In"
        /\ Cardinality({k \in DOMAIN calls : calls[k].op = "In"}) = 1
        /\ \A k \in DOMAIN calls :
             calls[k].op = "Handle" =>
                 calls[k].rec = [ret.rec EXCEPT !.loc = disp[ret.d].tz]

\* Two sinks were handed a record under a configured time zone.
C6_Witness ==
    /\ ret.op = "Handle"
    /\ disp[ret.d].tz # ""
    /\ Cardinality({k \in DOMAIN calls : calls[k].op = "Handle"}) >= 2

\* What h.WithAttrs(attrs) / h.WithGroup(name) is for handler object h of
\* the slog handlers: h with the attributes and the group added.
Derived(h, attrs, name) ==
    [h EXCEPT !.attrs = @ \o attrs, !.groups = IF name = "" THEN @ ELSE @ \o <<name>>]

\* A WithAttrs / WithGroup step: the new multihandler has the time zone of
\* the one derived from and, sink by sink, the derived sink; everything that
\* existed is as it was.
C7_DeriveStep ==
    ret'.op \in {"WithAttrs", "WithGroup"} =>
        /\ Len(disp') = Len(disp) + 1
        /\ \A d \in DOMAIN disp : disp'[d] = disp[d]
        /\ \A a \in DOMAIN heap : heap'[a] = heap[a]
        /\ disp'[Len(disp')].tz = disp[ret'.d].tz
        /\ Len(disp'[Len(disp')].handlers) = Len(disp[ret'.d].handlers)
        /\ \A i \in DOMAIN disp[ret'.d].handlers :
             LET old == disp[ret'.d].handlers[i]
                 new == disp'[Len(disp')].handlers[i]
             IN  IF heap[old].kind \in {"email", "mock"} THEN new = old
                 ELSE heap'[new] = Derived(heap[old], ret'.attrs, ret'.group)

\* C7: WithAttrs and WithGroup return a new multihandler of derived sinks
\* with the same time zone and change nothing that existed, so what is
\* emitted through the original multihandler carries no derived attribute
\* or group.
C7_DeriveLeavesOriginal ==
    /\ [][C7_DeriveStep]_vars
    /\ [](ret.op = "Handle" /\ ret.d = 1 =>
            \A k \in DOMAIN calls : calls[k].attrs = <<>> /\ calls[k].groups = <<>>)

\* A record went through the original multihandler to a slog handler after
\* a derivation with attributes.
C7_Witness ==
    /\ ret.op = "Handle"
    /\ ret.d = 1
    /\ Len(disp) >= 2
    /\ \E k \in DOMAIN calls : calls[k].op = "Handle" /\ heap[calls[k].h].kind = "console"
    /\ \E a \in DOMAIN heap : heap[a].attrs # <<>>

\* C10: multihandler.Enabled(level) is true exactly when some sink of the
\* multihandler accepts the level.
C10_EnabledIffAny ==
    ret.op = "Enabled" =>
        (ret.yes <=> \E i \in DOMAIN Sinks(ret.d) : Accepts(heap[Sinks(ret.d)[i]], ret.level))

\* Enabled was true because of a sink after one that rejects the level.
C10_Witness ==
    /\ ret.op = "Enabled"
    /\ ret.yes
    /\ Len(Sinks(ret.d)) = 2
    /\ ~Accepts(heap[Sinks(ret.d)[1]], ret.level)

\* Enabled was false for a multihandler whose sinks all reject the level.
C10_WitnessFalse ==
    /\ ret.op = "Enabled"
    /\ ~ret.yes
    /\ Len(Sinks(ret.d)) = 2

----------------------------------------------------------------------------
(* Logger sessions: New with options, logging, Close, and again            *)

\* "a" names a file; the others are the names the tests expect refused.
PlainNames == {<<"a">>}
BadNames == {<<".", ".", Sep, "a">>, <<Sep, "a">>, <<"a", Sep, "a">>, DotDot}
LogNames == PlainNames \cup BadNames \cup {<<>>, Dot}

NewOptions ==
    {[Option("EnableTimezone") EXCEPT !.timezone = z] : z \in {"Asia/Hong_Kong", "Not/A_Timezone"}}
    \cup {[Option("EnableConsole") EXCEPT !.level = 4]}
    \cup {[Option("EnableEmail") EXCEPT !.level = 4, !.host = "smtp", !.port = "465"]}
    \cup {[Option("EnableLogFile") EXCEPT !.filename = n, !.clearOnRestart = TRUE] : n \in LogNames}
    \cup {[Option("EnableLogFile") EXCEPT !.filename = n] : n \in PlainNames}

\* The options of the sessions of the append/truncate test, and a time zone.
LogOptions ==
    {[Option("EnableLogFile") EXCEPT !.filename = n, !.clearOnRestart = c] :
        n \in PlainNames, c \in BOOLEAN}
    \cup {[Option("EnableTimezone") EXCEPT !.timezone = "Asia/Hong_Kong"]}

LogRecs == [Level : {-4, 0}, inst : {1}, loc : {"Local"}, Message : {"m"}]

InitLog ==
    /\ fs \in {BaseFs, Put(BaseFs, LogA, FileNode(<<Text("old")>>, permOwnerRead))}
    /\ exe = ExeFile
    /\ InitRest

\* The first New of the process.
FirstNew(opts) ==
    /\ nsess = 0
    /\ NewCall(opts)

\* Construction: the first New, with any options, and Close.
NextNew ==
    \/ \E opts \in SeqsUpTo(NewOptions, MaxOpts) : FirstNew(opts)
    \/ CloseCall

SpecNew == InitLog /\ [][NextNew]_vars

\* Sessions: New with a log file, logging, Close, and again.
NextLog ==
    \/ \E opts \in SeqsUpTo(LogOptions, MaxOpts) : NewCall(opts)
    \/ \E r \in LogRecs, net \in BOOLEAN : LogCall(r, net)
    \/ CloseCall
    \/ Discard

SpecLog == InitLog /\ [][NextLog]_vars

IsLogFile(o, names) == o.opt = "EnableLogFile" /\ o.filename \in names

\* A step of New with a refused file name among the options panics with an
\* error that is errInvalidOption; no file is opened for such a name; the
\* only option being a log file under a plain name that does not exist yet,
\* New returns and that file exists in the directory of the executable,
\* open in the Multislog.
C8_NewStep ==
    ret'.op = "New" =>
        /\ (\E i \in DOMAIN ret'.opts : IsLogFile(ret'.opts[i], BadNames)) =>
               /\ ret'.panicked
               /\ ErrorsIs(ret'.err, errInvalidOption)
               /\ ~ms'.made
        /\ (\A i \in DOMAIN ret'.opts : IsLogFile(ret'.opts[i], BadNames)) =>
               /\ files' = files
               /\ fs' = fs
        /\ \A n \in PlainNames :
             (Len(ret'.opts) = 1 /\ IsLogFile(ret'.opts[1], {n}) /\ ~Exists(fs, BaseDir \o <<Sep>> \o n)) =>
                 /\ ~ret'.panicked
                 /\ ms'.made /\ ms'.logFile # 0
                 /\ DOMAIN fs' = DOMAIN fs \cup {BaseDir \o <<Sep>> \o n}
                 /\ fs'[BaseDir \o <<Sep>> \o n].kind = "file"
                 /\ files'[ms'.logFile].real = BaseDir \o <<Sep>> \o n
                 /\ ~files'[ms'.logFile].closed

\* C8: New with EnableLogFile of "../evil.log", "/absolute.log",
\* "subdir/file.log" or ".." panics with errInvalidOption and opens no
\* file; with a plain name it creates the file of that name in the
\* directory of the executable.
C8_SandboxNames == [][C8_NewStep]_vars

\* New created the log file of a plain name.
C8_Witness ==
    /\ ret.op = "New"
    /\ ~ret.panicked
    /\ Len(ret.opts) = 1
    /\ IsLogFile(ret.opts[1], PlainNames)
    /\ fs[LogA].kind = "file"
    /\ fs[LogA].data = <<>>

\* The file names the sandbox policy refuses: the empty name, ".", "..",
\* and those with a separator in them.
PolicyNames == BadNames \cup {<<>>, Dot}

\* The error wraps an errno of the operating system.
IsOsError(err) == \E e \in {"ENOENT", "EACCES", "ELOOP", "EISDIR"} : ErrorsIs(err, e)

\* C13: New with one option fails by kind: a file name the sandbox policy
\* refuses gives an error that is errInvalidLogFileName and no error of the
\* operating system; a file the operating system refuses to open gives an
\* error that is not errInvalidLogFileName; an invalid time zone gives an
\* error of neither kind.
C13_ErrorKinds ==
    (ret.op = "New" /\ Len(ret.opts) = 1) =>
        /\ IsLogFile(ret.opts[1], PolicyNames) =>
               /\ ret.panicked
               /\ ErrorsIs(ret.err, errInvalidLogFileName)
               /\ ~IsOsError(ret.err)
        /\ (IsLogFile(ret.opts[1], PlainNames) /\ ret.panicked) =>
               /\ IsOsError(ret.err)
               /\ ~ErrorsIs(ret.err, errInvalidLogFileName)
        /\ (ret.opts[1].opt = "EnableTimezone" /\ ret.panicked) =>
               /\ ~ErrorsIs(ret.err, errInvalidLogFileName)
               /\ ~IsOsError(ret.err)

\* The option returns an error: a time zone that does not exist, a file
\* name that is refused (BaseDir/a itself can be opened).
OptFails(o) ==
    \/ o.opt = "EnableTimezone" /\ o.timezone = "Not/A_Timezone"
    \/ IsLogFile(o, PolicyNames)

FirstFailing(opts) ==
    CHOOSE i \in DOMAIN opts : OptFails(opts[i]) /\ \A k \in 1..(i - 1) : ~OptFails(opts[k])

\* The options that register a sink, in order, and the sink of each.
SinkOpts(opts) == SelectSeq(opts, LAMBDA o : o.opt # "EnableTimezone")

SinkKind(o) ==
    CASE o.opt = "EnableConsole" -> "console"
      [] o.opt = "EnableLogFile" -> "file"
      [] o.opt = "EnableEmail" -> "email"

\* The time zone of the last EnableTimezone option, UTC without one.
LastZone(opts) ==
    LET tzs == SelectSeq(opts, LAMBDA o : o.opt = "EnableTimezone")
    IN  IF tzs = <<>> THEN "UTC" ELSE tzs[Len(tzs)].timezone

\* A step of New.  With a failing option it panics with an error that is
\* errInvalidOption, the options before the first failing one applied (the
\* files they open are open) and none after it.  Without one it returns a
\* Multislog whose Logger is on a multihandler with the handlers of the
\* Multislog: one per sink option, of its kind and level, in the order of
\* the options; its time zone is that of the options.
C15_NewStep ==
    ret'.op = "New" =>
        IF \E i \in DOMAIN ret'.opts : OptFails(ret'.opts[i])
        THEN /\ ret'.panicked
             /\ ErrorsIs(ret'.err, errInvalidOption)
             /\ ~ms'.made
             /\ Len(files') = Len(files) + Cardinality({i \in 1..(FirstFailing(ret'.opts) - 1) :
                                                          ret'.opts[i].opt = "EnableLogFile"})
             /\ ({i \in 1..(FirstFailing(ret'.opts) - 1) : ret'.opts[i].opt = "EnableLogFile"} = {}) =>
                    fs' = fs
        ELSE /\ ~ret'.panicked
             /\ ret'.err = NoErr
             /\ ms'.made
             /\ ms'.Logger \in DOMAIN disp'
             /\ disp'[ms'.Logger].handlers = ms'.handlers
             /\ disp'[ms'.Logger].tz = LastZone(ret'.opts)
             /\ Len(ms'.handlers) = Len(SinkOpts(ret'.opts))
             /\ \A i \in DOMAIN ms'.handlers :
                  /\ heap'[ms'.handlers[i]].kind = SinkKind(SinkOpts(ret'.opts)[i])
                  /\ heap'[ms'.handlers[i]].Level = SinkOpts(ret'.opts)[i].level
             /\ \A i, k \in DOMAIN ms'.handlers : i # k => ms'.handlers[i] # ms'.handlers[k]

\* C15: New applies its options in order and panics at the first one that
\* returns an error, with an error that is errInvalidOption; when none
\* fails, New with no options included, it returns a Multislog with a Logger
\* whose multihandler holds the registered sinks in registration order.
C15_NewInOrder == [][C15_NewStep]_vars

\* New panicked at its second option after the first one opened the log file.
C15_Witness ==
    /\ ret.op = "New"
    /\ ret.panicked
    /\ Len(ret.opts) = 2
    /\ IsLogFile(ret.opts[1], PlainNames)
    /\ OptFails(ret.opts[2])
    /\ Len(files) = 1

\* New returned a Multislog with two sinks of different kinds.
C15_WitnessBuilt ==
    /\ ret.op = "New"
    /\ ~ret.panicked
    /\ Len(ms.handlers) = 2
    /\ heap[ms.handlers[1]].kind = "email"
    /\ heap[ms.handlers[2]].kind = "console"

\* New returned a Multislog for no options.
C15_WitnessEmpty ==
    /\ ret.op = "New"
    /\ ret.opts = <<>>
    /\ ms.made
    /\ ms.Logger = 1

\* C16: the email sink that EnableEmail(level, host, port, ...) registers
\* dials host:port and authenticates against host.
C16_EmailHostPort ==
    (ret.op = "New" /\ ~ret.panicked) =>
        \A i \in DOMAIN ms.handlers :
            SinkOpts(ret.opts)[i].opt = "EnableEmail" =>
                /\ SendAddr(heap[ms.handlers[i]]) = <<SinkOpts(ret.opts)[i].host, SinkOpts(ret.opts)[i].port>>
                /\ SendAuthHost(heap[ms.handlers[i]]) = SinkOpts(ret.opts)[i].host

\* C17: once Close has run on a Multislog that New returned, no file that
\* an EnableLogFile option opened is still open.
C17_NoHandleLeftOpen ==
    (ret.op = "Close" /\ nsess = 1) => \A fd \in DOMAIN files : files[fd].closed

\* The lines of BaseDir/a.
DataA(fsys) == IF Exists(fsys, LogA) THEN fsys[LogA].data ELSE <<>>

\* The Multislog has one log file, BaseDir/a, open, and one handler on it.
OneLogA(m, hp, fls) ==
    /\ m.made
    /\ m.logFile # 0
    /\ fls[m.logFile].real = LogA
    /\ ~fls[m.logFile].closed
    /\ Cardinality({i \in DOMAIN m.handlers : hp[m.handlers[i]].kind = "file"}) = 1

LogFileOpts(opts) == {i \in DOMAIN opts : opts[i].opt = "EnableLogFile"}

\* A step of a session on BaseDir/a: New without clearOnRestart keeps the
\* lines, New with it empties the file, logging adds the record after the
\* lines there are (when the file handler accepts its level), Close keeps
\* the lines.
C9_SessionStep ==
    /\ (ret'.op = "New" /\ ~ret'.panicked /\ Cardinality(LogFileOpts(ret'.opts)) = 1
          /\ OneLogA(ms', heap', files')) =>
           DataA(fs') = IF \E i \in LogFileOpts(ret'.opts) : ret'.opts[i].clearOnRestart
                        THEN <<>> ELSE DataA(fs)
    /\ (ret'.op = "Log" /\ OneLogA(ms, heap, files)) =>
           DataA(fs') = IF ret'.rec.Level >= 0
                        THEN Append(DataA(fs), Line([ret'.rec EXCEPT !.loc = ms.timezone], <<>>, <<>>))
                        ELSE DataA(fs)
    /\ (ret'.op \in {"Close", "none"} /\ ms.made) => DataA(fs') = DataA(fs)

\* C9: over successive sessions on one file name, a session opened without
\* clearOnRestart keeps what earlier sessions wrote and adds its records
\* after it; a session opened with clearOnRestart leaves only its own
\* records in the file.
C9_AppendVsTruncate == [][C9_SessionStep]_vars

\* A later session, opened without clearOnRestart, logged after the lines
\* of an earlier one.
C9_Witness ==
    /\ ret.op = "Log"
    /\ nsess >= 2
    /\ OneLogA(ms, heap, files)
    /\ files[ms.logFile].append
    /\ Len(DataA(fs)) >= 2
    /\ DataA(fs)[1].rec.Message = "m"

----------------------------------------------------------------------------
(* FuzzOpenLogFile: one call of openLogFile, then the deferred clean-up     *)

FuzzOpened(filename, r) ==
    /\ fs' = r.fs
    /\ files' = IF r.err = NoErr THEN <<r.file>> ELSE <<>>
    /\ ret' = [Idle EXCEPT !.op = "openLogFile", !.err = r.err, !.name = filename,
                           !.fd = IF r.err = NoErr THEN 1 ELSE 0]

FuzzOpen(filename, allowRead, clearOnRestart) ==
    /\ ret.op = "none"
    /\ FuzzOpened(filename, openLogFile(fs, exe, filename, allowRead, clearOnRestart))
    /\ UNCHANGED <<thr, exe, heap, disp, ms, emits, closes, calls, stderr, nsess>>

\* file.Close() and os.Remove(file.Name()), which unlinks the name itself.
FuzzDone ==
    /\ ret.op = "openLogFile"
    /\ fs' = IF ret.fd # 0 /\ Exists(fs, files[ret.fd].name) THEN Remove(fs, files[ret.fd].name) ELSE fs
    /\ files' = <<>>
    /\ ret' = Idle
    /\ UNCHANGED <<thr, exe, heap, disp, ms, emits, closes, calls, stderr, nsess>>

NextOpen ==
    \/ \E filename \in FileNames, allowRead \in BOOLEAN, clearOnRestart \in BOOLEAN :
          FuzzOpen(filename, allowRead, clearOnRestart)
    \/ FuzzDone

SpecOpen == InitOpen /\ [][NextOpen]_vars

\* The fuzz test's check: the opened file, symlinks resolved, lies under the
\* resolved directory of the executable.
ConfinedTo(resolved, logPath) ==
    /\ resolved.ok
    /\ logPath.ok
    /\ HasPrefix(logPath.path \o <<Sep>>, Dir(resolved.path) \o <<Sep>>)

Confined(fsys, exePath, f) == ConfinedTo(EvalSymlinks(fsys, exePath), EvalSymlinks(fsys, f.name))

\* C3: whenever openLogFile returns a file, the symlink-resolved path of that
\* file plus a separator starts with the symlink-resolved directory of the
\* executable plus a separator.
C3_OpenedFileConfined ==
    (ret.op = "openLogFile" /\ ret.err = NoErr) => Confined(fs, exe, files[ret.fd])

====
